---- MODULE Spec2Model ----
(***************************************************************************)
(* Model of src/src/App.tsx: the App component of the Libras interpreter.  *)
(* The browser's event loop runs one handler (with the microtasks it       *)
(* queues) at a time, so each action below is one macrotask: a promise of  *)
(* the browser or of the detection library settling, an animation frame,   *)
(* a socket event, a click, or React unmounting the component.             *)
(* src/unnamed/part_000 is an earlier revision of the same component with  *)
(* the same init / handleVideoFrame / cleanup code and no socket.          *)
(***************************************************************************)
EXTENDS Integers, Sequences, FiniteSets, TLC

\* ---------------------------------------------------------------- bounds
MaxFrames == 2       \* executions of handleVideoFrame explored
MaxMessages == 2     \* socket messages received
MaxSends == 1        \* clicks on the "Traduzir" button
MaxLen == 2          \* landmarks in an input list of the pure-function check
MaxCoord == 1        \* |x|, |y| of a landmark in the pure-function check

\* ------------------------------------------------------ program constants
ExpectedLength == 42                     \* App.tsx:117
HandLandmarks == ExpectedLength \div 2   \* a MediaPipe hand has 21 keypoints

VARIABLES
  socketState,   \* socket.readyState: "CONNECTING", "OPEN" or "CLOSED"
  mounted,       \* the component is mounted (the effect cleanup has not run)
  videoRef,      \* videoRef.current # null
  canvasRef,     \* canvasRef.current # null
  pc,            \* where init() stands
  streamAcquired,
  metadataLoaded,
  canvasSized,   \* setupCanvas copied the video size to the canvas
  detector,      \* detector # null
  frameCurrent,  \* frame.current
  nextRafId,     \* the id the next requestAnimationFrame returns
  pendingRaf,    \* ids of the animation-frame callbacks that are pending
  hvfCount,      \* executions of handleVideoFrame so far
  drawCount,     \* executions of ctx.drawImage so far
  estimateCount, \* calls of detector.estimateHands so far
  inflight,      \* frames whose detector estimate has not completed
  coordinates,   \* the coordinates state
  coordFrame,    \* the frame whose estimate the coordinates state holds (0: none)
  result,        \* the result state
  shown,         \* the "Resultado" paragraph is in the DOM
  received,      \* data of the socket messages received, in order
  sendCalls,     \* the calls of socket.send: payload and readyState at the call
  wire,          \* the payloads that were transmitted
  pureIn,        \* pure-function check: the input list
  pureOut,       \* pure-function check: landmarkCoordinates(pureIn)
  purePc         \* pure-function check: "input", "done" or "off"

appVars == <<socketState, mounted, videoRef, canvasRef, pc, streamAcquired,
             metadataLoaded, canvasSized, detector, frameCurrent, nextRafId,
             pendingRaf, hvfCount, drawCount, estimateCount, inflight,
             coordinates, coordFrame, result, shown, received, sendCalls, wire>>
pureVars == <<pureIn, pureOut, purePc>>
vars == <<appVars, pureVars>>

frameVars == <<frameCurrent, nextRafId, pendingRaf, hvfCount, drawCount,
               estimateCount, inflight>>
socketVars == <<socketState, received, sendCalls, wire>>
stateVars == <<coordinates, coordFrame, result, shown>>
setupVars == <<streamAcquired, metadataLoaded, canvasSized>>
refVars == <<mounted, videoRef, canvasRef>>

\* ------------------------------------------------- landmarkCoordinates
\* Math.min() of no arguments
Infinity == "Infinity"

RECURSIVE MathMinFrom(_, _, _)
MathMinFrom(xs, i, acc) ==
  IF i > Len(xs) THEN acc
  ELSE MathMinFrom(xs, i + 1, IF xs[i] < acc THEN xs[i] ELSE acc)

\* Math.min(...xs)
MathMin(xs) == IF Len(xs) = 0 THEN Infinity ELSE MathMinFrom(xs, 2, xs[1])

\* Math.max(...xs), used by a mutant only
RECURSIVE MathMaxFrom(_, _, _)
MathMaxFrom(xs, i, acc) ==
  IF i > Len(xs) THEN acc
  ELSE MathMaxFrom(xs, i + 1, IF xs[i] > acc THEN xs[i] ELSE acc)

\* first forEach: coordinatesX.push(landmark.x)
RECURSIVE PushX(_, _, _)
PushX(landmarks, i, coordinatesX) ==
  IF i > Len(landmarks) THEN coordinatesX
  ELSE PushX(landmarks, i + 1, Append(coordinatesX, landmarks[i].x))

\* first forEach: coordinatesY.push(landmark.y)
RECURSIVE PushY(_, _, _)
PushY(landmarks, i, coordinatesY) ==
  IF i > Len(landmarks) THEN coordinatesY
  ELSE PushY(landmarks, i + 1, Append(coordinatesY, landmarks[i].y))

\* second forEach: push x - Math.min(...coordinatesX), then
\* y - Math.min(...coordinatesY); minX and minY are the two minima, which no
\* iteration changes
RECURSIVE PushNormalized(_, _, _, _, _)
PushNormalized(landmarks, i, minX, minY, acc) ==
  IF i > Len(landmarks) THEN acc
  ELSE PushNormalized(landmarks, i + 1, minX, minY,
         Append(Append(acc, landmarks[i].x - minX), landmarks[i].y - minY))

\* mutant: Math.max in place of Math.min
landmarkCoordinatesMax(landmarks) ==
  LET coordinatesX == PushX(landmarks, 1, <<>>)
      coordinatesY == PushY(landmarks, 1, <<>>)
  IN  IF Len(landmarks) = 0 THEN <<>>
      ELSE PushNormalized(landmarks, 1,
                          MathMaxFrom(coordinatesX, 2, coordinatesX[1]),
                          MathMaxFrom(coordinatesY, 2, coordinatesY[1]), <<>>)

\* mutant: the raw x and y are pushed, the minimum is not subtracted
landmarkCoordinatesRaw(landmarks) == PushNormalized(landmarks, 1, 0, 0, <<>>)

\* mutant: the minimum y is taken over coordinatesX
landmarkCoordinatesSwapped(landmarks) ==
  LET coordinatesX == PushX(landmarks, 1, <<>>)
  IN  PushNormalized(landmarks, 1, MathMin(coordinatesX),
                     MathMin(coordinatesX), <<>>)

landmarkCoordinates(landmarks) ==
  LET coordinatesX == PushX(landmarks, 1, <<>>)
      coordinatesY == PushY(landmarks, 1, <<>>)
  IN  PushNormalized(landmarks, 1, MathMin(coordinatesX),
                     MathMin(coordinatesY), <<>>)

\* ------------------------------------------- what the detector may return
\* n keypoints of a hand at offset (ox, oy) with shape s
Hand(n, ox, oy, s) ==
  [keypoints3D |->
     [i \in 1..n |-> [x |-> ox + ((i * s) % 3), y |-> oy - (i % (s + 1)), z |-> i % 2]]]

HandA == Hand(HandLandmarks, 0, 0, 1)
HandB == Hand(HandLandmarks, 4, -3, 2)
ShortHand == Hand(HandLandmarks - 1, 2, 2, 1)

\* detector.estimateHands resolves to a list of at most maxHands = 2 hands
Predictions == { <<>>, <<HandA>>, <<HandB, HandA>>, <<ShortHand>> }

\* message.data of a text frame
MessageData == { "", "A", "B" }

\* ------------------------------------------------------------ rendering
\* {result && <p>...</p>}: a string is truthy when it is not empty
RenderResult(r) == r # ""

\* if (coordinates): the state is always an array, and an array, [] included,
\* is truthy
Truthy(arr) == TRUE

\* ------------------------------------------------------------------ Init
AppInit ==
  /\ socketState = "CONNECTING"
  /\ mounted = TRUE
  /\ videoRef = TRUE
  /\ canvasRef = TRUE
  /\ pc = "getUserMedia"
  /\ streamAcquired = FALSE
  /\ metadataLoaded = FALSE
  /\ canvasSized = FALSE
  /\ detector = FALSE
  /\ frameCurrent = 0
  /\ nextRafId = 1
  /\ pendingRaf = {}
  /\ hvfCount = 0
  /\ drawCount = 0
  /\ estimateCount = 0
  /\ inflight = {}
  /\ coordinates = <<>>
  /\ coordFrame = 0
  /\ result = ""
  /\ shown = RenderResult("")
  /\ received = <<>>
  /\ sendCalls = <<>>
  /\ wire = <<>>

Init ==
  /\ AppInit
  /\ pureIn = <<>>
  /\ pureOut = <<>>
  /\ purePc = "off"

\* --------------------------------------------------------------- actions
\* handleVideoFrame, with pend the callbacks still pending when it starts
handleVideoFrame(pend) ==
  /\ hvfCount' = hvfCount + 1
  \* drawVideoInCanvas
  /\ drawCount' = IF videoRef /\ canvasRef THEN drawCount + 1 ELSE drawCount
  \* estimateHands, up to its await
  /\ IF videoRef /\ detector'
       THEN /\ inflight' = inflight \cup {hvfCount + 1}
            /\ estimateCount' = estimateCount + 1
       ELSE UNCHANGED <<inflight, estimateCount>>
  \* frame.current = requestAnimationFrame(handleVideoFrame)
  /\ frameCurrent' = nextRafId
  /\ pendingRaf' = pend \cup {nextRafId}
  /\ nextRafId' = nextRafId + 1

\* getUserMedia resolves: video.srcObject = stream, then wait for the metadata
GetUserMediaResolved ==
  /\ pc = "getUserMedia"
  /\ pc' = "loadedmetadata"
  /\ streamAcquired' = TRUE
  /\ UNCHANGED <<metadataLoaded, canvasSized, detector, refVars, frameVars,
                 socketVars, stateVars, pureVars>>

\* getUserMedia rejects (no camera, permission denied): init rejects
GetUserMediaRejected ==
  /\ pc = "getUserMedia"
  /\ pc' = "failed"
  /\ UNCHANGED <<setupVars, detector, refVars, frameVars, socketVars,
                 stateVars, pureVars>>

\* onloadedmetadata: setupVideo finishes, setupCanvas runs, loadDetector starts
OnLoadedMetadata ==
  /\ pc = "loadedmetadata"
  /\ metadataLoaded' = TRUE
  /\ canvasSized' = (canvasSized \/ (videoRef /\ canvasRef))
  /\ UNCHANGED <<streamAcquired, detector, refVars, socketVars, stateVars, pureVars>>
  /\ IF ~detector
       THEN /\ pc' = "createDetector"
            /\ UNCHANGED frameVars
       ELSE /\ pc' = "looping"
            /\ handleVideoFrame(pendingRaf)

\* createDetector resolves: detector is set and init calls handleVideoFrame
DetectorCreated ==
  /\ pc = "createDetector"
  /\ pc' = "looping"
  /\ detector' = TRUE
  /\ handleVideoFrame(pendingRaf)
  /\ UNCHANGED <<setupVars, refVars, socketVars, stateVars, pureVars>>

\* createDetector rejects (the model cannot be fetched): init rejects
CreateDetectorRejected ==
  /\ pc = "createDetector"
  /\ pc' = "failed"
  /\ UNCHANGED <<setupVars, detector, refVars, frameVars, socketVars,
                 stateVars, pureVars>>

\* the browser runs a pending animation-frame callback
AnimationFrame(id) ==
  /\ id \in pendingRaf
  /\ hvfCount < MaxFrames
  /\ UNCHANGED detector
  /\ handleVideoFrame(pendingRaf \ {id})
  /\ UNCHANGED <<pc, setupVars, refVars, socketVars, stateVars, pureVars>>

\* detector.estimateHands of frame f resolves to p: the rest of estimateHands
EstimateDone(f, p) ==
  /\ f \in inflight
  /\ inflight' = inflight \ {f}
  /\ IF Len(p) # 0
       THEN LET landmarks == p[1].keypoints3D
                landmarksCoordinates == landmarkCoordinates(landmarks)
            IN  IF Len(landmarksCoordinates) = ExpectedLength /\ mounted
                  THEN /\ coordinates' = landmarksCoordinates
                       /\ coordFrame' = f
                       /\ shown' = RenderResult(result)
                  ELSE UNCHANGED <<coordinates, coordFrame, shown>>
       ELSE UNCHANGED <<coordinates, coordFrame, shown>>
  /\ UNCHANGED <<result, pc, setupVars, detector, refVars, socketVars, pureVars,
                 frameCurrent, nextRafId, pendingRaf, hvfCount, drawCount,
                 estimateCount>>

\* React unmounts the component: the effect cleanup runs
\* cancelAnimationFrame(frame.current), the refs are detached and the DOM of
\* the component is removed
Unmount ==
  /\ mounted
  /\ mounted' = FALSE
  /\ pendingRaf' = pendingRaf \ {frameCurrent}
  /\ videoRef' = FALSE
  /\ canvasRef' = FALSE
  /\ shown' = FALSE
  /\ UNCHANGED <<pc, setupVars, detector, frameCurrent, nextRafId, hvfCount,
                 drawCount, estimateCount, inflight, coordinates, coordFrame,
                 result, socketVars, pureVars>>

\* socket.onopen
SocketOpen ==
  /\ socketState = "CONNECTING"
  /\ socketState' = "OPEN"
  /\ UNCHANGED <<received, sendCalls, wire, pc, setupVars, detector, refVars,
                 frameVars, stateVars, pureVars>>

\* socket.onerror: the connection failed or broke, the socket closes
SocketError ==
  /\ socketState \in {"CONNECTING", "OPEN"}
  /\ socketState' = "CLOSED"
  /\ UNCHANGED <<received, sendCalls, wire, pc, setupVars, detector, refVars,
                 frameVars, stateVars, pureVars>>

\* mutant: the message is received and the result state is not set
OnMessageDropped(data) ==
  /\ socketState = "OPEN"
  /\ Len(received) < MaxMessages
  /\ received' = Append(received, data)
  /\ UNCHANGED <<result, shown>>
  /\ UNCHANGED <<socketState, sendCalls, wire, coordinates, coordFrame, pc,
                 setupVars, detector, refVars, frameVars, pureVars>>

\* socket.onmessage: setResult(message.data) and the re-render it causes
OnMessage(data) ==
  /\ socketState = "OPEN"
  /\ Len(received) < MaxMessages
  /\ received' = Append(received, data)
  /\ IF mounted
       THEN /\ result' = data
            /\ shown' = RenderResult(data)
       ELSE UNCHANGED <<result, shown>>
  /\ UNCHANGED <<socketState, sendCalls, wire, coordinates, coordFrame, pc,
                 setupVars, detector, refVars, frameVars, pureVars>>

\* the click on "Traduzir": handleTranslateSignal.  socket.send throws while
\* the socket is connecting, transmits while it is open and discards the data
\* once it is closed
handleTranslateSignal ==
  /\ mounted
  /\ Len(sendCalls) < MaxSends
  /\ IF Truthy(coordinates)
       THEN /\ sendCalls' = Append(sendCalls,
                 [landmarks |-> coordinates, readyState |-> socketState])
            /\ wire' = IF socketState = "OPEN"
                         THEN Append(wire, [landmarks |-> coordinates])
                         ELSE wire
       ELSE UNCHANGED <<sendCalls, wire>>
  /\ UNCHANGED <<socketState, received, pc, setupVars, detector, refVars,
                 frameVars, stateVars, pureVars>>

Next ==
  \/ GetUserMediaResolved
  \/ GetUserMediaRejected
  \/ OnLoadedMetadata
  \/ DetectorCreated
  \/ CreateDetectorRejected
  \/ \E id \in pendingRaf : AnimationFrame(id)
  \/ \E f \in inflight : \E p \in Predictions : EstimateDone(f, p)
  \/ Unmount
  \/ SocketOpen
  \/ SocketError
  \/ \E data \in MessageData : OnMessage(data)
  \/ handleTranslateSignal

Spec == Init /\ [][Next]_vars

\* ------------------------------------- landmarkCoordinates on its own
PureCoords == (0 - MaxCoord)..MaxCoord

\* a keypoint of keypoints3D
Landmark3D == [x : PureCoords, y : PureCoords, z : {0, 1}]

PureInputs == UNION { [1..n -> Landmark3D] : n \in 0..MaxLen }

InitPure ==
  /\ AppInit
  /\ pureIn \in PureInputs
  /\ pureOut = <<>>
  /\ purePc = "input"

\* const landmarksCoordinates = landmarkCoordinates(landmarks)
ApplyLandmarkCoordinates ==
  /\ purePc = "input"
  /\ pureOut' = landmarkCoordinates(pureIn)
  /\ purePc' = "done"
  /\ UNCHANGED <<pureIn, appVars>>

NextPure == ApplyLandmarkCoordinates

SpecPure == InitPure /\ [][NextPure]_vars

\* ================================================================ claims
SetMin(S) == CHOOSE m \in S : \A v \in S : m <= v

\* the list L with dx added to every x and dy to every y
Translate(L, dx, dy) ==
  [i \in 1..Len(L) |-> [x |-> L[i].x + dx, y |-> L[i].y + dy, z |-> L[i].z]]

\* the data of the most recently received message ('' before the first)
LastData == IF received = <<>> THEN "" ELSE received[Len(received)]

\* what landmarkCoordinates yields for the first hand of a prediction
FirstHandCoordinates ==
  { landmarkCoordinates(p[1].keypoints3D) : p \in { q \in Predictions : Len(q) # 0 } }

\* C1: for an input of n >= 1 landmarks the result of landmarkCoordinates has
\* 2n entries; entry 2i (0-based) is landmark i's x minus the minimum x of the
\* input and entry 2i+1 is its y minus the minimum y, in input order.
C1_SubtractsMinimum ==
  (purePc = "done" /\ Len(pureIn) >= 1) =>
     /\ Len(pureOut) = 2 * Len(pureIn)
     /\ \A i \in 1..Len(pureIn) :
          /\ pureOut[2 * i - 1] =
               pureIn[i].x - SetMin({ pureIn[j].x : j \in 1..Len(pureIn) })
          /\ pureOut[2 * i] =
               pureIn[i].y - SetMin({ pureIn[j].y : j \in 1..Len(pureIn) })

\* C1 witness: two landmarks that differ in x, y and z, the second holding the
\* minimum x and the first the minimum y, have been normalized.
C1_Witness ==
  /\ purePc = "done"
  /\ Len(pureIn) = 2
  /\ pureIn[1].x = 1 /\ pureIn[2].x = 0 - 1
  /\ pureIn[1].y = 0 - 1 /\ pureIn[2].y = 0
  /\ pureIn[1].z # pureIn[2].z
  /\ pureOut = <<2, 0, 0, 1>>

\* C2: landmarkCoordinates of a list translated by any offset (dx, dy) is the
\* list landmarkCoordinates returned for the untranslated list.
C2_PositionInvariant ==
  purePc = "done" =>
     \A dx \in PureCoords : \A dy \in PureCoords :
        landmarkCoordinates(Translate(pureIn, dx, dy)) = pureOut

\* C2 witness: a two-landmark pose, not flat in x or y, whose translation by
\* (1, -1) is another list with the same normalized coordinates.
C2_Witness ==
  /\ purePc = "done"
  /\ Len(pureIn) = 2
  /\ pureIn[1].x # pureIn[2].x
  /\ pureIn[1].y # pureIn[2].y
  /\ Translate(pureIn, 1, 0 - 1) # pureIn
  /\ landmarkCoordinates(Translate(pureIn, 1, 0 - 1)) = pureOut
  /\ pureOut # <<0, 0, 0, 0>>

\* C3 (as claimed): every transmitted message carries a landmarks list of
\* exactly 42 values that landmarkCoordinates produced from the first hand of
\* a detector prediction.
C3_Claim ==
  \A i \in DOMAIN wire :
     /\ Len(wire[i].landmarks) = ExpectedLength
     /\ wire[i].landmarks \in FirstHandCoordinates

\* C4 (as claimed): the canvas is sized only after the stream is acquired and
\* the metadata loaded, the detector is created only after the canvas is
\* sized, handleVideoFrame runs only after the detector is created, and no
\* frame is drawn or estimated while the detector is null.
C4_Claim ==
  /\ canvasSized => (streamAcquired /\ metadataLoaded)
  /\ detector => canvasSized
  /\ hvfCount > 0 => detector
  /\ (drawCount > 0 \/ estimateCount > 0) => detector

\* C5 (as claimed): every execution of handleVideoFrame draws the video,
\* starts exactly one detector estimate and schedules exactly one animation
\* frame whose id is in frame.current; at most one callback is pending, and
\* one is pending whenever the mounted component is looping.
C5_Claim ==
  /\ drawCount = hvfCount
  /\ estimateCount = hvfCount
  /\ nextRafId = hvfCount + 1
  /\ hvfCount > 0 => frameCurrent = nextRafId - 1
  /\ Cardinality(pendingRaf) <= 1
  /\ (mounted /\ pc = "looping") => pendingRaf # {}

\* C6: while the component is mounted the result state is the data of the
\* most recently received message ('' before the first) and the result
\* paragraph is shown exactly when it is a non-empty string; the result state
\* changes only in a step that receives a message.
C6_ResultDisplayed ==
  /\ [](mounted => (result = LastData /\ (shown <=> result # "")))
  /\ [][result' # result => Len(received') = Len(received) + 1]_vars

\* C6 witness: two messages were received, the second replaced the first and
\* is displayed.
C6_Witness ==
  /\ mounted
  /\ received = <<"A", "B">>
  /\ result = "B"
  /\ shown

\* C7: in every non-empty landmarks list handed to socket.send all values are
\* non-negative, some x (even 0-based index) is 0 and some y (odd index) is 0.
C7_SentNormalized ==
  \A i \in DOMAIN sendCalls :
     LET l == sendCalls[i].landmarks
     IN  l # <<>> =>
           /\ \A k \in DOMAIN l : l[k] >= 0
           /\ \E k \in DOMAIN l : k % 2 = 1 /\ l[k] = 0
           /\ \E k \in DOMAIN l : k % 2 = 0 /\ l[k] = 0

\* C7 witness: the normalized coordinates of a detected hand whose raw y
\* values are negative were transmitted.
C7_Witness ==
  \E i \in DOMAIN wire :
     /\ Len(wire[i].landmarks) = ExpectedLength
     /\ wire[i].landmarks = landmarkCoordinates(HandB.keypoints3D)
     /\ \E k \in DOMAIN wire[i].landmarks : wire[i].landmarks[k] > 0

\* C8 (as claimed): once the effect cleanup has run, handleVideoFrame never
\* runs again.
C8_Claim == [][~mounted => hvfCount' = hvfCount]_vars

\* C9 (as claimed): socket.send is called only while the socket is open.
C9_Claim == \A i \in DOMAIN sendCalls : sendCalls[i].readyState = "OPEN"

\* C10 (as claimed): the coordinates state is never overwritten by the result
\* of a frame older than the one whose result it holds.
C10_Claim == [][coordFrame' >= coordFrame]_vars

====
